---------------------------- MODULE Spec2Model ----------------------------
(***************************************************************************)
(* Verification models of the demonstration units of pythonindepth.  The  *)
(* units share no state, so each has its own variables, its own initial   *)
(* predicate and next-state relation, and its own specification; while    *)
(* one unit runs, the variables of the others stay at their idle values.  *)
(***************************************************************************)
EXTENDS Integers, Sequences, FiniteSets, TLC

\* callable_example.py : CallCount
VARIABLES
    counts,        \* self._counts : the keys present and their counts
    cc_op,         \* the last operation performed on the instance
    cc_given,      \* whether the last operation was passed an argument
    cc_arg,        \* the argument the last operation was passed
    cc_ret,        \* what the last operation returned
    cc_prev,       \* self._counts before the last operation
    cc_streak      \* k when the instance was fresh and its whole history is
                   \* k invocations with one argument, otherwise 0

ccVars == <<counts, cc_op, cc_given, cc_arg, cc_ret, cc_prev, cc_streak>>

\* container_object.py : Bag
VARIABLES
    bag_input,     \* the iterable the Bag was constructed from
    sorted_list,   \* self._sorted_list
    bag_x,         \* the value of the last membership test
    bag_found,     \* what the last membership test returned
    bag_pc         \* "built" after construction, "tested" after a test

bagVars == <<bag_input, sorted_list, bag_x, bag_found, bag_pc>>

\* a_case_for_properties.py : Coordinate
VARIABLES
    coord_live,    \* whether the caller holds a constructed instance
    _latitude,     \* self._latitude, in 1/Scale degrees, or None
    _longitude,    \* self._longitude, in 1/Scale degrees, or None
    coord_op,      \* the last operation: "construct", "latitude", "longitude"
    coord_lat_arg, \* the latitude the last operation assigned (0: none)
    coord_long_arg,\* the longitude the last operation assigned (0: none)
    coord_raised,  \* the field whose setter raised in the last operation, or "no"
    coord_prev     \* <<_latitude, _longitude>> before the last operation

coordVars == <<coord_live, _latitude, _longitude, coord_op, coord_lat_arg,
               coord_long_arg, coord_raised, coord_prev>>

\* rtrie.py : RTrieNode
VARIABLES
    node_live,     \* whether the caller holds a constructed node
    node_value,    \* self.value
    next_,         \* self.next_ : the list of child slots
    node_op,       \* the last operation on the node
    node_arg_len,  \* the length of the child list the last operation passed
    node_raised    \* whether the last operation raised ValueError

trieVars == <<node_live, node_value, next_, node_op, node_arg_len, node_raised>>

\* unpacking_variables.py : bad_users_from_rows, users_from_rows
VARIABLES
    dbrows_in,     \* the list of rows both mappers are given
    bad_result,    \* what bad_users_from_rows returned or raised
    good_result    \* what users_from_rows returned or raised

rowsVars == <<dbrows_in, bad_result, good_result>>

\* context_decorator.py, context_manager_sample.py, contextlib_sample.py
VARIABLES
    db_form,       \* the bracketing form of the current run
    db_block,      \* what the bracketed block does: return a value or raise
    db_pc,         \* where the run is: idle, enter, block, exit, leave
    db_log,        \* the actions observed so far, in order
    db_mark,       \* the length of db_log when the current run began
    db_exc,        \* the exception in flight, or NoExc
    db_outcome,    \* what reached the caller of the current run, or Pending
    db_runs        \* the number of runs completed

dbVars == <<db_form, db_block, db_pc, db_log, db_mark, db_exc, db_outcome, db_runs>>

\* exception_handling.py : DataTransport
VARIABLES
    dt_pc,          \* where deliver_event is: idle, connect, send, transmit,
                    \* except, return
    dt_event,       \* the event being delivered
    connection,     \* self.connection
    dt_attempts,    \* connection attempts made in this delivery
    dt_waited,      \* the backoff waited in this delivery
    dt_exc,         \* the exception in flight, as its chain of causes
    dt_origin,      \* the failure first raised in this delivery
    dt_connected,   \* whether this delivery established a connection
    dt_send_called, \* whether this delivery called self.send
    dt_logged,      \* whether logger.error has been called
    dt_outcome,     \* what reached the caller of deliver_event
    dt_deliveries   \* the number of deliveries completed

dtVars == <<dt_pc, dt_event, connection, dt_attempts, dt_waited, dt_exc, dt_origin,
            dt_connected, dt_send_called, dt_logged, dt_outcome, dt_deliveries>>

\* naive_vs_comprension.py : the two extractions of account ids
VARIABLES
    arns_in,       \* the list of strings both extractions are given
    arn_count,     \* the count when arns_in came from generate_fake_arns, else -1
    eager_ids,     \* the set collect_account_ids_from_arns returned
    lazy_gen       \* the generator collect_account_ids_from_arns_1 returned:
                   \* how many inputs it has consumed and what it has yielded

arnVars == <<arns_in, arn_count, eager_ids, lazy_gen>>

\* Every unit runs alone: its actions leave the other units' variables as
\* they are.
notCC == <<bagVars, coordVars, trieVars, rowsVars, dbVars, dtVars, arnVars>>
notBag == <<ccVars, coordVars, trieVars, rowsVars, dbVars, dtVars, arnVars>>
notCoord == <<ccVars, bagVars, trieVars, rowsVars, dbVars, dtVars, arnVars>>
notTrie == <<ccVars, bagVars, coordVars, rowsVars, dbVars, dtVars, arnVars>>
notRows == <<ccVars, bagVars, coordVars, trieVars, dbVars, dtVars, arnVars>>
notDB == <<ccVars, bagVars, coordVars, trieVars, rowsVars, dtVars, arnVars>>
notDT == <<ccVars, bagVars, coordVars, trieVars, rowsVars, dbVars, arnVars>>
notArn == <<ccVars, bagVars, coordVars, trieVars, rowsVars, dbVars, dtVars>>

vars == <<ccVars, bagVars, coordVars, trieVars, rowsVars, dbVars, dtVars, arnVars>>

(***************************************************************************)
(* callable_example.py : CallCount                                         *)
(***************************************************************************)

\* Python's None.  reset() declares argument=None, so an omitted argument and
\* an explicit None reach the body of reset as the same value.
None == "None"

\* The arguments the instance is invoked with: two ordinary hashable values
\* and None, which is hashable and so a legal key of the mapping.
Args == {"a", "b", None}

MaxCount == 3     \* invocations stop once a count has reached this value
MaxSeed == 1      \* the largest count an initial mapping holds

EmptyCounts == [k \in {} |-> 0]

\* The mappings CallCount may be constructed with.
SeedMaps == UNION {[D -> 0..MaxSeed] : D \in SUBSET Args}

\* __init__: defaultdict(int, initial_counts or {}).  seed.given = FALSE is
\* initial_counts=None; an empty mapping is falsy and replaced by {} as well.
CallCount_init(seed) ==
    IF ~seed.given \/ DOMAIN seed.map = {} THEN EmptyCounts ELSE seed.map

\* dict.get(argument, 0): the value under the key, 0 when the key is absent.
CallCount_get_count(c, argument) ==
    IF argument \in DOMAIN c THEN c[argument] ELSE 0

\* What get_count leaves in self._counts.  dict.get never calls __missing__,
\* so the mapping is untouched.  The faulty variant reads self._counts[argument], which
\* on a defaultdict inserts the key with int() = 0.
CallCount_get_count_counts_M(c, argument) ==
    [k \in DOMAIN c \cup {argument} |-> IF k \in DOMAIN c THEN c[k] ELSE 0]

CallCount_get_count_counts(c, argument) == c

\* __call__, line 9: self._counts[argument] += 1.  The defaultdict supplies 0
\* for a missing key, then the key is stored with the incremented value.
CallCount_call_counts_M(c, argument) ==
    [k \in DOMAIN c \cup {argument} |->
        IF k = argument THEN 1 ELSE c[k]]

CallCount_call_counts(c, argument) ==
    [k \in DOMAIN c \cup {argument} |->
        IF k = argument THEN CallCount_get_count(c, argument) + 1 ELSE c[k]]

\* __call__, line 10: return self._counts[argument], read after the update.
CallCount_call(c, argument) == CallCount_call_counts(c, argument)[argument]

\* reset: argument is None -> clear(), otherwise self._counts[argument] = 0.
CallCount_reset(c, argument) ==
    IF argument = None
    THEN EmptyCounts
    ELSE [k \in DOMAIN c \cup {argument} |-> IF k = argument THEN 0 ELSE c[k]]

\* __repr__: f"CallCount({dict(self._counts)})": the keys and their values.
CallCount_repr(c) == [type |-> "CallCount", items |-> {<<k, c[k]>> : k \in DOMAIN c}]

CCInit ==
    /\ \E seed \in [given : {TRUE}, map : SeedMaps]
                   \cup [given : {FALSE}, map : {EmptyCounts}] :
          counts = CallCount_init(seed)
    /\ cc_op = "init"
    /\ cc_given = FALSE
    /\ cc_arg = None
    /\ cc_ret = 0
    /\ cc_prev = EmptyCounts
    /\ cc_streak = 0

\* instance(argument)
CCCall(argument) ==
    /\ CallCount_get_count(counts, argument) < MaxCount
    /\ counts' = CallCount_call_counts(counts, argument)
    /\ cc_ret' = CallCount_call(counts, argument)
    /\ cc_op' = "call"
    /\ cc_given' = TRUE
    /\ cc_arg' = argument
    /\ cc_prev' = counts
    /\ cc_streak' =
         IF cc_op = "init" /\ counts = EmptyCounts THEN 1
         ELSE IF cc_streak > 0 /\ cc_arg = argument THEN cc_streak + 1
         ELSE 0
    /\ UNCHANGED notCC

\* instance.get_count(argument)
CCGetCount(argument) ==
    /\ counts' = CallCount_get_count_counts(counts, argument)
    /\ cc_ret' = CallCount_get_count(counts, argument)
    /\ cc_op' = "get_count"
    /\ cc_given' = TRUE
    /\ cc_arg' = argument
    /\ cc_prev' = counts
    /\ cc_streak' = 0
    /\ UNCHANGED notCC

\* instance.reset(argument) when given, instance.reset() when not: the
\* parameter then takes its default, None.
CCReset(given, a) ==
    LET argument == IF given THEN a ELSE None IN
    /\ counts' = CallCount_reset(counts, argument)
    /\ cc_ret' = 0
    /\ cc_op' = "reset"
    /\ cc_given' = given
    /\ cc_arg' = argument
    /\ cc_prev' = counts
    /\ cc_streak' = 0
    /\ UNCHANGED notCC

CCNext ==
    \/ \E argument \in Args : CCCall(argument)
    \/ \E argument \in Args : CCGetCount(argument)
    \/ \E argument \in Args : CCReset(TRUE, argument)
    \/ CCReset(FALSE, None)

\* The instance while another unit runs.
CCIdle ==
    /\ counts = EmptyCounts
    /\ cc_op = "idle"
    /\ cc_given = FALSE
    /\ cc_arg = None
    /\ cc_ret = 0
    /\ cc_prev = EmptyCounts
    /\ cc_streak = 0

\* C4: an invocation with argument a returns the count a had before plus one
\* (0 when a was absent, the seeded value when seeded), stores that count
\* under a and leaves every other key as it was, present or absent; on a
\* fresh instance the k-th consecutive invocation with one argument returns k.
C4_CallIncrementsByOne ==
    cc_op = "call" =>
        /\ cc_ret = (IF cc_arg \in DOMAIN cc_prev THEN cc_prev[cc_arg] ELSE 0) + 1
        /\ cc_arg \in DOMAIN counts
        /\ counts[cc_arg] = cc_ret
        /\ \A k \in Args \ {cc_arg} :
              /\ k \in DOMAIN counts <=> k \in DOMAIN cc_prev
              /\ k \in DOMAIN counts => counts[k] = cc_prev[k]
        /\ cc_streak > 0 => cc_ret = cc_streak

\* The third consecutive invocation of a fresh instance with one argument.
C4_Witness == cc_op = "call" /\ cc_streak = 3 /\ cc_ret = 3

\* C5: reset(argument) with an argument given sets that argument's count to 0
\* and leaves the other counts unchanged; reset() with none given empties the
\* mapping, so every key reports 0.
C5_ResetAsClaimed ==
    cc_op = "reset" =>
        IF cc_given
        THEN /\ CallCount_get_count(counts, cc_arg) = 0
             /\ \A k \in Args \ {cc_arg} :
                   CallCount_get_count(counts, k) = CallCount_get_count(cc_prev, k)
        ELSE /\ counts = EmptyCounts
             /\ \A k \in Args : CallCount_get_count(counts, k) = 0

\* C6: get_count(argument) returns the stored count, 0 for an unseen
\* argument, and leaves the mapping (keys, values, rendering) as it was.
C6_GetCountDoesNotMutate ==
    cc_op = "get_count" =>
        /\ cc_ret = (IF cc_arg \in DOMAIN cc_prev THEN cc_prev[cc_arg] ELSE 0)
        /\ DOMAIN counts = DOMAIN cc_prev
        /\ \A k \in DOMAIN counts : counts[k] = cc_prev[k]
        /\ CallCount_repr(counts) = CallCount_repr(cc_prev)

\* get_count of an unseen argument on an instance holding other keys.
C6_Witness ==
    /\ cc_op = "get_count"
    /\ cc_arg \notin DOMAIN cc_prev
    /\ cc_ret = 0
    /\ DOMAIN cc_prev # {}

(***************************************************************************)
(* container_object.py : Bag                                               *)
(***************************************************************************)

MaxLen == 3       \* the longest input sequence
MaxVal == 2       \* elements are 0..MaxVal; queries also try MaxVal + 1

BagElems == 0..MaxVal
BagQueries == 0..(MaxVal + 1)
BagInputs == UNION {[1..n -> BagElems] : n \in 0..MaxLen}

\* list.insert at the position after every element <= v: one step of a
\* stable ascending sort.
RECURSIVE InsertSorted(_, _)
InsertSorted(s, v) ==
    IF s = << >> THEN <<v>>
    ELSE IF v < Head(s) THEN <<v>> \o s
    ELSE <<Head(s)>> \o InsertSorted(Tail(s), v)

\* sorted(input): a new list, ascending, duplicates kept.
RECURSIVE sorted(_)
sorted(input) ==
    IF input = << >> THEN << >>
    ELSE InsertSorted(sorted(SubSeq(input, 1, Len(input) - 1)), input[Len(input)])

\* bisect.bisect_right(a, x): the loop of the variant that moves right past
\* equal elements (if x < a[mid]: hi = mid else: lo = mid + 1).
RECURSIVE bisect_right_loop(_, _, _, _)
bisect_right_loop(a, x, lo, hi) ==
    IF lo < hi
    THEN LET mid == (lo + hi) \div 2 IN
         IF x < a[mid + 1]
         THEN bisect_right_loop(a, x, lo, mid)
         ELSE bisect_right_loop(a, x, mid + 1, hi)
    ELSE lo

\* bisect.bisect_left(a, x): lo, hi = 0, len(a); while lo < hi:
\* mid = (lo + hi) // 2; if a[mid] < x: lo = mid + 1 else: hi = mid; return lo.
\* Python indexes from 0, the sequence here from 1.
RECURSIVE bisect_left_loop(_, _, _, _)
bisect_left_loop(a, x, lo, hi) ==
    IF lo < hi
    THEN LET mid == (lo + hi) \div 2 IN
         IF a[mid + 1] < x
         THEN bisect_left_loop(a, x, mid + 1, hi)
         ELSE bisect_left_loop(a, x, lo, mid)
    ELSE lo

bisect_left(a, x) == bisect_left_loop(a, x, 0, Len(a))

\* Bag.__contains__: idx < len(self._sorted_list) and self._sorted_list[idx] == x
Bag_contains(sl, x) ==
    LET idx == bisect_left(sl, x) IN
    idx < Len(sl) /\ sl[idx + 1] = x

\* Bag(input)
BagInit ==
    /\ bag_input \in BagInputs
    /\ sorted_list = sorted(bag_input)
    /\ bag_x = 0
    /\ bag_found = FALSE
    /\ bag_pc = "built"

\* x in bag
BagContains(x) ==
    /\ bag_found' = Bag_contains(sorted_list, x)
    /\ bag_x' = x
    /\ bag_pc' = "tested"
    /\ UNCHANGED <<bag_input, sorted_list>>
    /\ UNCHANGED notBag

BagNext == \E x \in BagQueries : BagContains(x)

\* The Bag while another unit runs.
BagIdle ==
    /\ bag_input = << >>
    /\ sorted_list = << >>
    /\ bag_x = 0
    /\ bag_found = FALSE
    /\ bag_pc = "idle"

\* A linear scan of the input as given.
OccursIn(input, x) == \E i \in 1..Len(input) : input[i] = x

\* C7: x in Bag(input) is true exactly when x occurs in the input: true for
\* every element, false for an absent value such as one greater than the
\* maximum, false for every query on an empty Bag.
C7_ContainsIffOccurs ==
    bag_pc = "tested" =>
        /\ bag_found = OccursIn(bag_input, bag_x)
        /\ bag_input = << >> => ~bag_found
        /\ (\A i \in 1..Len(bag_input) : bag_input[i] < bag_x) => ~bag_found

\* A duplicated element found in an unsorted input of three elements.
C7_Witness ==
    /\ bag_pc = "tested"
    /\ bag_found
    /\ bag_input = <<2, 1, 1>>
    /\ bag_x = 1

(***************************************************************************)
(* a_case_for_properties.py : Coordinate                                   *)
(***************************************************************************)

LatLimit == 90
LonLimit == 180

Scale == 2        \* values are counted in 1/Scale degrees: 181 is 90.5 degrees
Margin == 2       \* inputs lie within Margin steps of -180, -90, 0, 90, 180 degrees

\* |v|
Abs(v) == IF v < 0 THEN -v ELSE v

\* The values assigned: whole and fractional degrees on both sides of every
\* boundary of either field, and around 0.
CoordInputs ==
    {v \in (-(LonLimit + Margin) * Scale)..((LonLimit + Margin) * Scale) :
        \E b \in {-LonLimit, -LatLimit, 0, LatLimit, LonLimit} :
            Abs(v - b * Scale) <= Margin}

\* value in range(start, stop): a float is a member when it equals one of the
\* integers start, ..., stop - 1, so a fractional value is never a member.
in_range(value, start, stop) ==
    /\ value % Scale = 0
    /\ start <= value \div Scale
    /\ value \div Scale < stop

\* A setter's outcome: whether it raised ValueError and what the field holds.
\* The latitude setter with the longitude's bounds pasted in.
Coordinate_latitude_setter_M(stored, lat_value) ==
    IF ~in_range(lat_value, -LonLimit, LonLimit + 1)
    THEN [raised |-> TRUE, value |-> stored]
    ELSE [raised |-> FALSE, value |-> lat_value]

\* @latitude.setter: raise unless lat_value in range(-90, 90 + 1), else store.
Coordinate_latitude_setter(stored, lat_value) ==
    IF ~in_range(lat_value, -LatLimit, LatLimit + 1)
    THEN [raised |-> TRUE, value |-> stored]
    ELSE [raised |-> FALSE, value |-> lat_value]

\* @longitude.setter: raise unless long_value in range(-180, 180 + 1).
Coordinate_longitude_setter(stored, long_value) ==
    IF ~in_range(long_value, -LonLimit, LonLimit + 1)
    THEN [raised |-> TRUE, value |-> stored]
    ELSE [raised |-> FALSE, value |-> long_value]

\* No Coordinate yet: nothing is bound to the name the caller constructs into.
CoordNone ==
    /\ coord_live = FALSE
    /\ _latitude = None
    /\ _longitude = None
    /\ coord_op = "none"
    /\ coord_lat_arg = 0
    /\ coord_long_arg = 0
    /\ coord_raised = "no"
    /\ coord_prev = <<None, None>>

CoordInit == CoordNone

\* c = Coordinate(lat, long).  __init__ sets both fields to None, then assigns
\* through the setters in order; a ValueError from either leaves __init__ and
\* the caller gets no instance.
CoordConstruct(lat, long) ==
    LET la == Coordinate_latitude_setter(None, lat)
        lo == Coordinate_longitude_setter(None, long)
    IN
    /\ ~coord_live
    /\ coord_op' = "construct"
    /\ coord_lat_arg' = lat
    /\ coord_long_arg' = long
    /\ coord_prev' = <<None, None>>
    /\ IF la.raised
       THEN /\ coord_raised' = "latitude"
            /\ coord_live' = FALSE
            /\ _latitude' = None
            /\ _longitude' = None
       ELSE IF lo.raised
       THEN /\ coord_raised' = "longitude"
            /\ coord_live' = FALSE
            /\ _latitude' = None
            /\ _longitude' = None
       ELSE /\ coord_raised' = "no"
            /\ coord_live' = TRUE
            /\ _latitude' = la.value
            /\ _longitude' = lo.value
    /\ UNCHANGED notCoord

\* c.latitude = lat_value
CoordSetLatitude(lat_value) ==
    LET la == Coordinate_latitude_setter(_latitude, lat_value) IN
    /\ coord_live
    /\ coord_op' = "latitude"
    /\ coord_lat_arg' = lat_value
    /\ coord_long_arg' = 0
    /\ coord_prev' = <<_latitude, _longitude>>
    /\ coord_raised' = IF la.raised THEN "latitude" ELSE "no"
    /\ _latitude' = la.value
    /\ UNCHANGED <<coord_live, _longitude>>
    /\ UNCHANGED notCoord

\* c.longitude = long_value
CoordSetLongitude(long_value) ==
    LET lo == Coordinate_longitude_setter(_longitude, long_value) IN
    /\ coord_live
    /\ coord_op' = "longitude"
    /\ coord_long_arg' = long_value
    /\ coord_lat_arg' = 0
    /\ coord_prev' = <<_latitude, _longitude>>
    /\ coord_raised' = IF lo.raised THEN "longitude" ELSE "no"
    /\ _longitude' = lo.value
    /\ UNCHANGED <<coord_live, _latitude>>
    /\ UNCHANGED notCoord

CoordNext ==
    \/ \E lat \in CoordInputs, long \in CoordInputs : CoordConstruct(lat, long)
    \/ \E lat_value \in CoordInputs : CoordSetLatitude(lat_value)
    \/ \E long_value \in CoordInputs : CoordSetLongitude(long_value)

CoordIdle == CoordNone

\* A number of degrees outside -limit..limit, compared as a real number.
OutOfRange(value, limit) == value < -limit * Scale \/ value > limit * Scale

\* C2: an instance holds a latitude within -90..90 and a longitude within
\* -180..180; an assignment of an out-of-range value, at construction or
\* later, raises at that assignment and leaves the stored values as they were
\* (a construction that raises yields no instance).
C2_CoordinateNeverOutOfRange ==
    /\ coord_live =>
          /\ ~OutOfRange(_latitude, LatLimit)
          /\ ~OutOfRange(_longitude, LonLimit)
    /\ (coord_op = "latitude" /\ OutOfRange(coord_lat_arg, LatLimit)) =>
          /\ coord_raised = "latitude"
          /\ <<_latitude, _longitude>> = coord_prev
    /\ (coord_op = "longitude" /\ OutOfRange(coord_long_arg, LonLimit)) =>
          /\ coord_raised = "longitude"
          /\ <<_latitude, _longitude>> = coord_prev
    /\ (coord_op = "construct" /\ OutOfRange(coord_lat_arg, LatLimit)) =>
          /\ coord_raised = "latitude"
          /\ ~coord_live
    /\ (coord_op = "construct" /\ ~OutOfRange(coord_lat_arg, LatLimit)
          /\ OutOfRange(coord_long_arg, LonLimit)) =>
          /\ coord_raised \in {"latitude", "longitude"}
          /\ ~coord_live

\* latitude = -91 rejected on an instance constructed with (90, 180).
C2_Witness ==
    /\ coord_live
    /\ coord_op = "latitude"
    /\ coord_lat_arg = -91 * Scale
    /\ coord_raised = "latitude"
    /\ _latitude = 90 * Scale
    /\ _longitude = 180 * Scale

(***************************************************************************)
(* rtrie.py : RTrieNode                                                    *)
(***************************************************************************)

R == 26

MaxExtra == 2     \* child lists are built up to MaxExtra slots off R
MaxValue == 1     \* payloads are 0..MaxValue

\* [x] * n
Repeat(x, n) == [i \in 1..n |-> x]

\* What a slot holds: None, or a reference to another node.
SlotValues == {None, "node"}

\* The child lists a caller passes: all-None lists of every length near R.
NextLists == {Repeat(None, n) : n \in (R - MaxExtra)..(R + MaxExtra)}

\* field(default_factory=lambda: [None] * R)
RTrieNode_default_next == Repeat(None, R)

\* size = R, a class attribute.
RTrieNode_size == R

\* __post_init__: whether it raises ValueError for this child list.
RTrieNode_post_init_raises(next_list) == Len(next_list) # RTrieNode_size

RTrieNone ==
    /\ node_live = FALSE
    /\ node_value = 0
    /\ next_ = << >>
    /\ node_op = "none"
    /\ node_arg_len = 0
    /\ node_raised = FALSE

RTrieInit == RTrieNone

\* n = RTrieNode(value) or RTrieNode(value, next_list).  The generated
\* __init__ stores both fields, then calls __post_init__; when that raises the
\* caller gets no instance.
RTrieConstruct(value, given, next_list) ==
    LET lst == IF given THEN next_list ELSE RTrieNode_default_next IN
    /\ ~node_live
    /\ node_op' = "construct"
    /\ node_arg_len' = Len(lst)
    /\ IF RTrieNode_post_init_raises(lst)
       THEN /\ node_raised' = TRUE
            /\ UNCHANGED <<node_live, node_value, next_>>
       ELSE /\ node_raised' = FALSE
            /\ node_live' = TRUE
            /\ node_value' = value
            /\ next_' = lst
    /\ UNCHANGED notTrie

\* n.next_ = next_list: a plain attribute of a non-frozen dataclass; nothing
\* runs __post_init__ again.
RTrieAssignNext(next_list) ==
    /\ node_live
    /\ next_' = next_list
    /\ node_op' = "assign"
    /\ node_arg_len' = Len(next_list)
    /\ node_raised' = FALSE
    /\ UNCHANGED <<node_live, node_value>>
    /\ UNCHANGED notTrie

\* n.next_.append(x): the list is an ordinary mutable list.
RTrieAppend(x) ==
    /\ node_live
    /\ Len(next_) < R + MaxExtra
    /\ next_' = Append(next_, x)
    /\ node_op' = "append"
    /\ node_arg_len' = 0
    /\ node_raised' = FALSE
    /\ UNCHANGED <<node_live, node_value>>
    /\ UNCHANGED notTrie

\* n.next_.pop()
RTriePop ==
    /\ node_live
    /\ Len(next_) > R - MaxExtra
    /\ next_' = SubSeq(next_, 1, Len(next_) - 1)
    /\ node_op' = "pop"
    /\ node_arg_len' = 0
    /\ node_raised' = FALSE
    /\ UNCHANGED <<node_live, node_value>>
    /\ UNCHANGED notTrie

\* n.next_[i] = x for the first or the last slot (i = 0 or i = -1).
RTrieSetSlot(last, x) ==
    /\ node_live
    /\ Len(next_) > 0
    /\ next_' = [next_ EXCEPT ![IF last THEN Len(next_) ELSE 1] = x]
    /\ node_op' = "setitem"
    /\ node_arg_len' = 0
    /\ node_raised' = FALSE
    /\ UNCHANGED <<node_live, node_value>>
    /\ UNCHANGED notTrie

RTrieNext ==
    \/ \E value \in 0..MaxValue : RTrieConstruct(value, FALSE, << >>)
    \/ \E value \in 0..MaxValue, next_list \in NextLists :
          RTrieConstruct(value, TRUE, next_list)
    \/ \E next_list \in NextLists : RTrieAssignNext(next_list)
    \/ \E x \in SlotValues : RTrieAppend(x)
    \/ RTriePop
    \/ \E last \in BOOLEAN, x \in SlotValues : RTrieSetSlot(last, x)

RTrieIdle == RTrieNone

\* C3: len(next_) = 26 always: a construction with another length raises and
\* yields no node, one with the default or with 26 slots succeeds, and in
\* every state reached afterwards by operations on the node (reassigning
\* next_, appending to or removing from the child list) the node has exactly
\* 26 child slots.
C3_AlwaysTwentySixSlots ==
    /\ node_live => Len(next_) = R
    /\ (node_op = "construct" /\ node_arg_len # R) => node_raised /\ ~node_live
    /\ (node_op = "construct" /\ node_arg_len = R) => ~node_raised /\ node_live

\* The part of C3 the constructor does enforce, for comparison: right after a
\* construction the node holds R slots or does not exist.
RTrieConstructionChecked ==
    node_op = "construct" =>
        IF node_arg_len = R
        THEN node_live /\ ~node_raised /\ Len(next_) = R
        ELSE ~node_live /\ node_raised

(***************************************************************************)
(* unpacking_variables.py : bad_users_from_rows, users_from_rows           *)
(***************************************************************************)

UserArity == 3    \* the targets of the destructuring: user_id, first_name, last_name

MaxRows == 2      \* the longest list of rows
MaxId == 1        \* rows carry the ids 0..MaxId
ArityMargin == 1  \* rows have UserArity - ArityMargin .. UserArity + ArityMargin fields

\* A row of n fields for id i, shaped like the entries of USERS and cut or
\* extended to n fields.
DbRow(i, n) ==
    [k \in 1..n |->
        IF k = 1 THEN i
        ELSE IF k = 2 THEN "first_name_" \o ToString(i)
        ELSE IF k = 3 THEN "last_name_" \o ToString(i)
        ELSE "extra"]

DbRows ==
    {DbRow(i, n) : i \in 0..MaxId,
                   n \in (UserArity - ArityMargin)..(UserArity + ArityMargin)}

RowLists == UNION {[1..n -> DbRows] : n \in 0..MaxRows}

\* User(user_id, first_name, last_name)
User(user_id, first_name, last_name) ==
    [user_id |-> user_id, first_name |-> first_name, last_name |-> last_name]

\* What a mapper hands its caller: the list, or the error that left it.
Returned(users) == [kind |-> "ok", users |-> users]
Raised(error) == [kind |-> error, users |-> << >>]

\* [User(row[0], row[1], row[2]) for row in dbrows], row by row: an index past
\* the end of a row raises IndexError and the comprehension is abandoned;
\* fields after the third are never looked at.
RECURSIVE bad_users_from_rows(_)
bad_users_from_rows(dbrows) ==
    IF dbrows = << >> THEN Returned(<< >>)
    ELSE LET row == Head(dbrows) IN
         IF Len(row) < 3 THEN Raised("IndexError")
         ELSE LET rest == bad_users_from_rows(Tail(dbrows)) IN
              IF rest.kind # "ok" THEN rest
              ELSE Returned(<<User(row[1], row[2], row[3])>> \o rest.users)

\* [User(user_id, first_name, last_name) for (user_id, first_name, last_name)
\* in dbrows]: unpacking a row of any other length raises ValueError.
RECURSIVE users_from_rows(_)
users_from_rows(dbrows) ==
    IF dbrows = << >> THEN Returned(<< >>)
    ELSE LET row == Head(dbrows) IN
         IF Len(row) # UserArity THEN Raised("ValueError")
         ELSE LET rest == users_from_rows(Tail(dbrows)) IN
              IF rest.kind # "ok" THEN rest
              ELSE Returned(<<User(row[1], row[2], row[3])>> \o rest.users)

NotRun == [kind |-> "not run", users |-> << >>]

RowsInit ==
    /\ dbrows_in \in RowLists
    /\ bad_result = NotRun
    /\ good_result = NotRun

\* bad_users_from_rows(dbrows)
RowsRunBad ==
    /\ bad_result = NotRun
    /\ bad_result' = bad_users_from_rows(dbrows_in)
    /\ UNCHANGED <<dbrows_in, good_result>>
    /\ UNCHANGED notRows

\* users_from_rows(dbrows)
RowsRunGood ==
    /\ good_result = NotRun
    /\ good_result' = users_from_rows(dbrows_in)
    /\ UNCHANGED <<dbrows_in, bad_result>>
    /\ UNCHANGED notRows

RowsNext == RowsRunBad \/ RowsRunGood

RowsIdle ==
    /\ dbrows_in = << >>
    /\ bad_result = NotRun
    /\ good_result = NotRun

\* C10: on rows that all have 3 fields both mappers return the same records,
\* one per row in input order; when some row has another arity, fewer or more
\* fields, both mappers raise.
C10_MappersAgree ==
    (bad_result # NotRun /\ good_result # NotRun) =>
        IF \A i \in 1..Len(dbrows_in) : Len(dbrows_in[i]) = 3
        THEN /\ bad_result.kind = "ok"
             /\ good_result.kind = "ok"
             /\ bad_result.users = good_result.users
             /\ Len(good_result.users) = Len(dbrows_in)
             /\ \A i \in 1..Len(dbrows_in) :
                   good_result.users[i] =
                       User(dbrows_in[i][1], dbrows_in[i][2], dbrows_in[i][3])
        ELSE /\ bad_result.kind # "ok"
             /\ good_result.kind # "ok"

(***************************************************************************)
(* context_decorator.py : dbhandler_decorator                              *)
(* context_manager_sample.py : DBHandler                                   *)
(* contextlib_sample.py : db_handler                                       *)
(***************************************************************************)

MaxRuns == 2      \* bracketed runs per behaviour

\* The three bracketing forms.
DBForms == {"dbhandler_decorator", "DBHandler", "db_handler"}

\* No exception in flight.
NoExc == "no exception"

\* What the bracketed block does when it runs: return a value or raise.
DBBlocks ==
    [kind : {"return"}, val : {"None", "dump"}]
        \cup [kind : {"raise"}, val : {"OSError", "KeyboardInterrupt", "StopIteration"}]

Pending == [kind |-> "pending", val |-> "None"]

\* stop_database(), start_database(): each runs one command.
stop_database == <<"stop">>
start_database == <<"start">>

\* __enter__ of the three forms: what it runs before the block starts.  For
\* db_handler this is the generator up to its yield.
dbhandler_decorator_enter == stop_database
DBHandler_enter == stop_database
db_handler_enter == stop_database

\* __exit__ of the two classes: what it runs, and whether its return value
\* tells the with statement to swallow the exception.  Both return None.
dbhandler_decorator_exit(exc) == [ran |-> start_database, suppress |-> FALSE]
DBHandler_exit(exc) == [ran |-> start_database, suppress |-> FALSE]

\* db_handler written without try/finally: an exception thrown in at the yield
\* leaves the generator before start_database().
db_handler_exit_M(exc) ==
    [ran |-> IF exc = NoExc THEN start_database ELSE << >>, suppress |-> FALSE]

\* db_handler resumed by contextmanager's __exit__: next() after a normal
\* block, throw(exc) after a raising one.  Either way the finally clause runs
\* start_database(); the generator then ends (StopIteration) or lets exc out,
\* and __exit__ answers False for the exception it threw in (also for a
\* StopIteration of the block, which comes back as itself or wrapped in a
\* RuntimeError whose cause it is).
db_handler_exit(exc) == [ran |-> start_database, suppress |-> FALSE]

DBEnterOf(form) ==
    IF form = "dbhandler_decorator" THEN dbhandler_decorator_enter
    ELSE IF form = "DBHandler" THEN DBHandler_enter
    ELSE db_handler_enter

DBExitOf(form, exc) ==
    IF form = "dbhandler_decorator" THEN dbhandler_decorator_exit(exc)
    ELSE IF form = "DBHandler" THEN DBHandler_exit(exc)
    ELSE db_handler_exit(exc)

DBNone ==
    /\ db_form = "DBHandler"
    /\ db_block = [kind |-> "return", val |-> "None"]
    /\ db_pc = "idle"
    /\ db_log = << >>
    /\ db_mark = 0
    /\ db_exc = NoExc
    /\ db_outcome = Pending
    /\ db_runs = 0

DBInit == DBNone

\* The caller reaches offline_backup(), `with DBHandler():` or
\* `with db_handler():` around some block.
DBBegin(form, block) ==
    /\ db_pc = "idle"
    /\ db_runs < MaxRuns
    /\ db_form' = form
    /\ db_block' = block
    /\ db_pc' = "enter"
    /\ db_mark' = Len(db_log)
    /\ db_exc' = NoExc
    /\ db_outcome' = Pending
    /\ UNCHANGED <<db_log, db_runs>>
    /\ UNCHANGED notDB

\* __enter__
DBEnter ==
    /\ db_pc = "enter"
    /\ db_log' = db_log \o DBEnterOf(db_form)
    /\ db_pc' = "block"
    /\ UNCHANGED <<db_form, db_block, db_mark, db_exc, db_outcome, db_runs>>
    /\ UNCHANGED notDB

\* The bracketed block runs: the wrapped function, or the body of the with.
DBBlock ==
    /\ db_pc = "block"
    /\ db_log' = Append(db_log, "block")
    /\ db_exc' = IF db_block.kind = "raise" THEN db_block.val ELSE NoExc
    /\ db_pc' = "exit"
    /\ UNCHANGED <<db_form, db_block, db_mark, db_outcome, db_runs>>
    /\ UNCHANGED notDB

\* __exit__, called by the with statement on either way out of the block.
DBExit ==
    LET x == DBExitOf(db_form, db_exc) IN
    /\ db_pc = "exit"
    /\ db_log' = db_log \o x.ran
    /\ db_exc' = IF x.suppress THEN NoExc ELSE db_exc
    /\ db_pc' = "leave"
    /\ UNCHANGED <<db_form, db_block, db_mark, db_outcome, db_runs>>
    /\ UNCHANGED notDB

\* The with statement is left: the exception still in flight is re-raised to
\* the caller; otherwise the caller gets the wrapped function's return value
\* (the decorator) or goes on after the with (None).
DBLeave ==
    /\ db_pc = "leave"
    /\ db_outcome' =
         IF db_exc # NoExc THEN [kind |-> "raise", val |-> db_exc]
         ELSE IF db_block.kind = "return" /\ db_form = "dbhandler_decorator"
              THEN [kind |-> "return", val |-> db_block.val]
         ELSE [kind |-> "return", val |-> "None"]
    /\ db_exc' = NoExc
    /\ db_pc' = "idle"
    /\ db_runs' = db_runs + 1
    /\ UNCHANGED <<db_form, db_block, db_mark, db_log>>
    /\ UNCHANGED notDB

DBNext ==
    \/ \E form \in DBForms, block \in DBBlocks : DBBegin(form, block)
    \/ DBEnter
    \/ DBBlock
    \/ DBExit
    \/ DBLeave

DBIdle == DBNone

\* What has been observed since the current bracketed run began.
DBRunLog == SubSeq(db_log, db_mark + 1, Len(db_log))

IsPrefix(s, t) == Len(s) <= Len(t) /\ s = SubSeq(t, 1, Len(s))

\* C1: in each form, for a block that returns or raises: stop is observed
\* before the block starts, start exactly once after the block ends (the
\* observed order is stop, block, start), and a failure of the block is not
\* suppressed: it reaches the caller, and only after start was recorded.
C1_BracketOrder ==
    /\ IsPrefix(DBRunLog, <<"stop", "block", "start">>)
    /\ db_pc = "block" => DBRunLog = <<"stop">>
    /\ db_pc = "exit" => DBRunLog = <<"stop", "block">>
    /\ db_pc = "leave" => DBRunLog = <<"stop", "block", "start">>
    /\ db_outcome # Pending =>
          /\ DBRunLog = <<"stop", "block", "start">>
          /\ db_block.kind = "raise" => db_outcome = db_block
          /\ db_block.kind = "return" => db_outcome.kind = "return"

\* A raising block under db_handler whose failure has reached the caller, in
\* a second run.
C1_Witness ==
    /\ db_form = "db_handler"
    /\ db_block = [kind |-> "raise", val |-> "OSError"]
    /\ db_outcome = [kind |-> "raise", val |-> "OSError"]
    /\ db_runs = 2
    /\ db_log = <<"stop", "block", "start", "stop", "block", "start">>

(***************************************************************************)
(* exception_handling.py : DataTransport                                   *)
(***************************************************************************)

_RETRY_BACKOFF == 5
_RETRY_TIMES == 3

MaxDeliveries == 2   \* deliver_event calls per behaviour

\* The events: one that decodes, one whose decode() raises ValueError, one
\* whose decode() raises UnicodeDecodeError (a subclass of ValueError).
Events == {"good", "bad", "bad-utf8"}

\* The base class of each exception class that occurs.
BaseOf(cls) ==
    CASE cls = "UnicodeDecodeError" -> "ValueError"
      [] cls = "ConnectionError" -> "OSError"
      [] cls = "TimeoutError" -> "OSError"
      [] cls \in {"ValueError", "OSError", "RuntimeError", "DataEncodingError"} -> "Exception"
      [] OTHER -> "BaseException"

\* isinstance(exception of class cls, base): what an except clause tests.
RECURSIVE IsA(_, _)
IsA(cls, base) ==
    \/ cls = base
    \/ cls # "BaseException" /\ IsA(BaseOf(cls), base)

\* An exception is written as its chain: <<class, class of its __cause__, ...>>.
\* `raise cls(...) from e`
RaiseFrom(cls, e) == <<cls>> \o e

\* What event.decode() does for each event.
Event_decode(event) ==
    IF event = "good" THEN << >>
    ELSE IF event = "bad" THEN <<"ValueError">>
    ELSE <<"UnicodeDecodeError">>

\* The failures connector.connect() and connection.send() may end in.
ConnectFailures == {"ConnectionError", "TimeoutError"}
SendFailures == {"ConnectionError", "ValueError"}

\* send, lines 24-26: except ValueError as e -> log, then
\* raise DataEncodingError(...) from e; any other exception passes through.
DataTransport_send_translate(e) ==
    IF IsA(Head(e), "ValueError") THEN RaiseFrom("DataEncodingError", e) ELSE e

\* deliver_event with the handler narrowed to `except ConnectionError`.
DataTransport_deliver_event_translate_M(e) ==
    IF IsA(Head(e), "ConnectionError") THEN RaiseFrom("RuntimeError", e) ELSE e

\* deliver_event, lines 18-19: except Exception as e ->
\* raise RuntimeError("Failed to deliver event") from e.
DataTransport_deliver_event_translate(e) ==
    IF IsA(Head(e), "Exception") THEN RaiseFrom("RuntimeError", e) ELSE e

DTPending == [kind |-> "pending", exc |-> << >>]

DTNone ==
    /\ dt_pc = "idle"
    /\ dt_event = "good"
    /\ connection = None
    /\ dt_attempts = 0
    /\ dt_waited = 0
    /\ dt_exc = << >>
    /\ dt_origin = << >>
    /\ dt_connected = FALSE
    /\ dt_send_called = FALSE
    /\ dt_logged = FALSE
    /\ dt_outcome = DTPending
    /\ dt_deliveries = 0

\* DataTransport(connector): self.connection = None.
DTInit == DTNone

\* transport.deliver_event(event): enters the try block.
DTDeliver(event) ==
    /\ dt_pc = "idle"
    /\ dt_deliveries < MaxDeliveries
    /\ dt_event' = event
    /\ dt_pc' = "connect"
    /\ dt_attempts' = 0
    /\ dt_waited' = 0
    /\ dt_exc' = << >>
    /\ dt_origin' = << >>
    /\ dt_connected' = FALSE
    /\ dt_send_called' = FALSE
    /\ dt_outcome' = DTPending
    /\ UNCHANGED <<connection, dt_logged, dt_deliveries>>
    /\ UNCHANGED notDT

\* connect_with_retry(connector, 3, 5): one attempt to connect.  A success is
\* returned and stored in self.connection; a failure is retried after the
\* backoff, and the failure of the last attempt is raised.
DTConnectAttempt(ok, failure) ==
    /\ dt_pc = "connect"
    /\ dt_attempts < _RETRY_TIMES
    /\ dt_attempts' = dt_attempts + 1
    /\ IF ok
       THEN /\ connection' = "connection"
            /\ dt_connected' = TRUE
            /\ dt_pc' = "send"
            /\ UNCHANGED <<dt_exc, dt_origin, dt_waited>>
       ELSE IF dt_attempts + 1 < _RETRY_TIMES
       THEN /\ dt_waited' = dt_waited + _RETRY_BACKOFF
            /\ UNCHANGED <<connection, dt_connected, dt_pc, dt_exc, dt_origin>>
       ELSE /\ dt_exc' = <<failure>>
            /\ dt_origin' = <<failure>>
            /\ dt_pc' = "except"
            /\ UNCHANGED <<connection, dt_connected, dt_waited>>
    /\ UNCHANGED <<dt_event, dt_send_called, dt_logged, dt_outcome, dt_deliveries>>
    /\ UNCHANGED notDT

\* self.send(event), first half: event.decode() inside send's try block.
DTSendDecode ==
    LET e == Event_decode(dt_event) IN
    /\ dt_pc = "send"
    /\ dt_send_called' = TRUE
    /\ IF e = << >>
       THEN /\ dt_pc' = "transmit"
            /\ UNCHANGED <<dt_exc, dt_origin, dt_logged>>
       ELSE /\ dt_exc' = DataTransport_send_translate(e)
            /\ dt_origin' = e
            /\ dt_logged' = (dt_logged \/ IsA(Head(e), "ValueError"))
            /\ dt_pc' = "except"
    /\ UNCHANGED <<dt_event, connection, dt_attempts, dt_waited, dt_connected,
                   dt_outcome, dt_deliveries>>
    /\ UNCHANGED notDT

\* self.send(event), second half: self.connection.send(data) returns, or
\* raises inside send's try block.
DTSendTransmit(ok, failure) ==
    /\ dt_pc = "transmit"
    /\ IF ok
       THEN /\ dt_pc' = "return"
            /\ UNCHANGED <<dt_exc, dt_origin, dt_logged>>
       ELSE /\ dt_exc' = DataTransport_send_translate(<<failure>>)
            /\ dt_origin' = <<failure>>
            /\ dt_logged' = (dt_logged \/ IsA(failure, "ValueError"))
            /\ dt_pc' = "except"
    /\ UNCHANGED <<dt_event, connection, dt_attempts, dt_waited, dt_connected,
                   dt_send_called, dt_outcome, dt_deliveries>>
    /\ UNCHANGED notDT

\* An exception left the try block of deliver_event: the handler translates
\* it and the result reaches the caller.
DTExcept ==
    /\ dt_pc = "except"
    /\ dt_outcome' = [kind |-> "raise",
                      exc |-> DataTransport_deliver_event_translate(dt_exc)]
    /\ dt_exc' = << >>
    /\ dt_pc' = "idle"
    /\ dt_deliveries' = dt_deliveries + 1
    /\ UNCHANGED <<dt_event, connection, dt_attempts, dt_waited, dt_origin,
                   dt_connected, dt_send_called, dt_logged>>
    /\ UNCHANGED notDT

\* The try block completed: deliver_event returns.
DTReturn ==
    /\ dt_pc = "return"
    /\ dt_outcome' = [kind |-> "return", exc |-> << >>]
    /\ dt_pc' = "idle"
    /\ dt_deliveries' = dt_deliveries + 1
    /\ UNCHANGED <<dt_event, connection, dt_attempts, dt_waited, dt_exc, dt_origin,
                   dt_connected, dt_send_called, dt_logged>>
    /\ UNCHANGED notDT

DTNext ==
    \/ \E event \in Events : DTDeliver(event)
    \/ DTConnectAttempt(TRUE, "ConnectionError")
    \/ \E failure \in ConnectFailures : DTConnectAttempt(FALSE, failure)
    \/ DTSendDecode
    \/ DTSendTransmit(TRUE, "ConnectionError")
    \/ \E failure \in SendFailures : DTSendTransmit(FALSE, failure)
    \/ DTExcept
    \/ DTReturn

DTIdle == DTNone

\* C8: deliver_event completes normally or raises "delivery failed"
\* (RuntimeError) with the original failure chained as its cause: a connect
\* failure after the retries, a send failure, and the event-encoding error
\* send raises for bad data all reach the caller only as "delivery failed";
\* send is attempted only after the connection was established.
C8_OnlyDeliveryFailed ==
    /\ dt_send_called => dt_connected /\ connection # None
    /\ dt_outcome.kind = "return" => dt_origin = << >> /\ dt_send_called
    /\ dt_outcome.kind = "raise" =>
          /\ Head(dt_outcome.exc) = "RuntimeError"
          /\ dt_origin # << >>
          /\ Tail(dt_outcome.exc) \in
                {dt_origin, RaiseFrom("DataEncodingError", dt_origin)}
          /\ IsA(Head(dt_origin), "ValueError") =>
                Tail(dt_outcome.exc) = RaiseFrom("DataEncodingError", dt_origin)
          /\ ~dt_connected =>
                /\ dt_attempts = _RETRY_TIMES
                /\ ~dt_send_called
                /\ Head(dt_origin) \in ConnectFailures

\* A bad-data event on an established connection: the caller gets
\* RuntimeError from DataEncodingError from UnicodeDecodeError.
C8_Witness ==
    /\ dt_pc = "idle"
    /\ dt_event = "bad-utf8"
    /\ dt_connected
    /\ dt_outcome = [kind |-> "raise",
                     exc |-> <<"RuntimeError", "DataEncodingError", "UnicodeDecodeError">>]

(***************************************************************************)
(* naive_vs_comprension.py : ARN_REGEX, generate_fake_arns,                *)
(* collect_account_ids_from_arns, collect_account_ids_from_arns_1          *)
(***************************************************************************)

AccountIdDigits == 12   \* \d{12}

MaxArns == 2      \* the longest list of hand-written identifiers
MaxGen == 11      \* the largest count given to generate_fake_arns

\* The i-th character of a string, i from 1.
Char(s, i) == SubSeq(s, i, i)

CharsOf(s) == {Char(s, i) : i \in 1..Len(s)}

\* The characters the identifiers are written in.
Alphabet ==
    CharsOf("abcdefghijklmnopqrstuvwxyzABCDEFGHIJKLMNOPQRSTUVWXYZ0123456789_-:/\n")

\* The character classes of the pattern, over Alphabet: \d, [\w-] and . (any
\* character but a line break).
DigitChars == CharsOf("0123456789")
WordOrHyphenChars ==
    CharsOf("abcdefghijklmnopqrstuvwxyzABCDEFGHIJKLMNOPQRSTUVWXYZ0123456789_-")
AnyCharButNewline == Alphabet \ {"\n"}

\* The matcher keeps the set of offsets the pattern so far can have consumed.
\* A literal: the offsets after it, from each offset where it is found.
MatchLiteral(s, P, lit) ==
    {p + Len(lit) : p \in {q \in P : /\ q + Len(lit) <= Len(s)
                                      /\ SubSeq(s, q + 1, q + Len(lit)) = lit}}

\* The offset where the run of characters of the class that starts after
\* offset p ends.
RECURSIVE RunEnd(_, _, _)
RunEnd(s, p, class) ==
    IF p < Len(s) /\ Char(s, p + 1) \in class THEN RunEnd(s, p + 1, class) ELSE p

Min(a, b) == IF a <= b THEN a ELSE b

\* class{lo,hi}: the offsets after lo to hi characters of the class.
MatchRepeat(s, P, class, lo, hi) ==
    UNION {(p + lo)..Min(p + hi, RunEnd(s, p, class)) : p \in P}

\* $ : at the end of the string, or just before a line break that ends it.
MatchEnd(s, P) ==
    \E p \in P : \/ p = Len(s)
                 \/ p = Len(s) - 1 /\ Char(s, Len(s)) = "\n"

\* The group (?P<account_id>\d{12}) with the count left open (\d+): the pairs
\* <<start, end>> of the group from each offset of P.
AccountIdGroup_M(s, P) ==
    {g \in P \X (0..Len(s)) : g[2] \in MatchRepeat(s, {g[1]}, DigitChars, 1, Len(s))}

\* The group (?P<account_id>\d{12}).
AccountIdGroup(s, P) ==
    {g \in P \X (0..Len(s)) :
        g[2] \in MatchRepeat(s, {g[1]}, DigitChars, AccountIdDigits, AccountIdDigits)}

\* re.match found nothing: None.
NoMatch == [matched |-> FALSE, account_id |-> ""]

\* re.match(ARN_REGEX, arn) with
\* ARN_REGEX = ^arn:aws:[\w-]+:[\w-]*:(?P<account_id>\d{12}):.+$
\* The result is None or a match object, of which groupdict()["account_id"]
\* is kept.
re_match_ARN_REGEX(arn) ==
    LET p1 == MatchLiteral(arn, {0}, "arn:aws:")
        p2 == MatchRepeat(arn, p1, WordOrHyphenChars, 1, Len(arn))
        p3 == MatchLiteral(arn, p2, ":")
        p4 == MatchRepeat(arn, p3, WordOrHyphenChars, 0, Len(arn))
        p5 == MatchLiteral(arn, p4, ":")
        found == {g \in AccountIdGroup(arn, p5) :
                    MatchEnd(arn, MatchRepeat(arn, MatchLiteral(arn, {g[2]}, ":"),
                                              AnyCharButNewline, 1, Len(arn)))}
    IN  IF found = {} THEN NoMatch
        ELSE LET g == CHOOSE g \in found : \A h \in found : h[2] >= g[2] IN
             [matched |-> TRUE, account_id |-> SubSeq(arn, g[1] + 1, g[2])]

\* The decimal digit a character stands for.
DigitValue(c) == CHOOSE d \in 0..9 : ToString(d) = c

\* f"{100000000000 + i}": the sum exceeds 32 bits, so it is computed on the
\* decimal digits, adding n at the last digit and carrying.
RECURSIVE DecimalAdd(_, _)
DecimalAdd(digits, n) ==
    IF n = 0 THEN digits
    ELSE IF digits = "" THEN ToString(n)
    ELSE LET sum == DigitValue(Char(digits, Len(digits))) + n IN
         DecimalAdd(SubSeq(digits, 1, Len(digits) - 1), sum \div 10)
             \o ToString(sum % 10)

\* generate_fake_arns(service, region, resource_type, resource_prefix, count)
generate_fake_arns(service, region, resource_type, resource_prefix, count) ==
    [k \in 1..count |->
        LET i == k - 1
            account_id == DecimalAdd("100000000000", i)
            resource_name == resource_prefix \o "-" \o ToString(i)
        IN  "arn:aws:" \o service \o ":" \o region \o ":" \o account_id \o ":"
                \o resource_type \o "/" \o resource_name]

\* generate_fake_arns(count=count): the other parameters at their defaults.
generate_fake_arns_default(count) ==
    generate_fake_arns("s3", "us-east-1", "bucket", "test-bucket", count)

\* Hand-written identifiers: well-formed ones (an empty region, colons in the
\* resource, an account id a generated identifier also has, a final line
\* break) and malformed ones (no arn:aws: prefix, text before the prefix, an
\* empty service, 11 or 13 digits, a letter in the account id, no resource).
ArnPool ==
    { "arn:aws:iam::123456789012:role/admin",
      "arn:aws:sns:eu-west-1:123456789012:topic:sub",
      "arn:aws:s3:us-east-1:100000000000:bucket/other",
      "arn:aws:s3:us-east-1:100000000001:bucket/x\n",
      "s3:us-east-1:100000000000:bucket/test-bucket-0",
      "xarn:aws:s3:us-east-1:100000000000:bucket/b",
      "arn:aws::us-east-1:100000000002:bucket/b",
      "arn:aws:s3:us-east-1:10000000000:bucket/b",
      "arn:aws:s3:us-east-1:1000000000003:bucket/b",
      "arn:aws:s3:us-east-1:10000000000a:bucket/b",
      "arn:aws:s3:us-east-1:100000000004:" }

ArnLists == UNION {[1..n -> ArnPool] : n \in 0..MaxArns}

\* collect_account_ids_from_arns: the loop over arns, adding the account id
\* of every arn whose match is not None to the set.
RECURSIVE collect_account_ids_from_arns(_)
collect_account_ids_from_arns(arns) ==
    IF arns = << >> THEN {}
    ELSE LET collected_account_ids ==
                 collect_account_ids_from_arns(SubSeq(arns, 1, Len(arns) - 1))
             matched == re_match_ARN_REGEX(arns[Len(arns)])
         IN  IF matched # NoMatch
             THEN collected_account_ids \cup {matched.account_id}
             ELSE collected_account_ids

\* collect_account_ids_from_arns_1 returns a generator: nothing is matched
\* until it is iterated.
NewGenerator == [created |-> TRUE, pos |-> 0, yielded |-> << >>]
NoGenerator == [created |-> FALSE, pos |-> 0, yielded |-> << >>]

\* One step of the generator over arns: it takes the next arn and yields its
\* account id when `matched := re.match(...)` is truthy (a match object
\* always is, None never).
generator_next(gen, arns) ==
    LET matched == re_match_ARN_REGEX(arns[gen.pos + 1]) IN
    [gen EXCEPT !.pos = gen.pos + 1,
                !.yielded = IF matched.matched
                            THEN Append(gen.yielded, matched.account_id)
                            ELSE gen.yielded]

NotCollected == {"not collected"}

ArnInit ==
    /\ \/ arn_count = -1 /\ arns_in \in ArnLists
       \/ arn_count \in 0..MaxGen /\ arns_in = generate_fake_arns_default(arn_count)
    /\ eager_ids = NotCollected
    /\ lazy_gen = NoGenerator

\* collect_account_ids_from_arns(arns)
ArnCollectEager ==
    /\ eager_ids = NotCollected
    /\ eager_ids' = collect_account_ids_from_arns(arns_in)
    /\ UNCHANGED <<arns_in, arn_count, lazy_gen>>
    /\ UNCHANGED notArn

\* data = collect_account_ids_from_arns_1(arns)
ArnCollectLazy ==
    /\ ~lazy_gen.created
    /\ lazy_gen' = NewGenerator
    /\ UNCHANGED <<arns_in, arn_count, eager_ids>>
    /\ UNCHANGED notArn

\* The consumer of data takes the generator one input further.
ArnLazyNext ==
    /\ lazy_gen.created
    /\ lazy_gen.pos < Len(arns_in)
    /\ lazy_gen' = generator_next(lazy_gen, arns_in)
    /\ UNCHANGED <<arns_in, arn_count, eager_ids>>
    /\ UNCHANGED notArn

ArnNext == ArnCollectEager \/ ArnCollectLazy \/ ArnLazyNext

ArnIdle ==
    /\ arns_in = << >>
    /\ arn_count = -1
    /\ eager_ids = NotCollected
    /\ lazy_gen = NoGenerator

\* The identifier format, field by field: arn:aws:, a service, a region, an
\* account id and a resource separated by colons; service and region of word
\* characters and hyphens, the service not empty; the account id 12 digits;
\* the resource not empty, on one line.
RECURSIVE ColonAfter(_, _)
ColonAfter(s, from) ==
    IF from > Len(s) THEN 0
    ELSE IF Char(s, from) = ":" THEN from
    ELSE ColonAfter(s, from + 1)

ArnFields(s) ==
    LET c1 == ColonAfter(s, 9)
        c2 == IF c1 = 0 THEN 0 ELSE ColonAfter(s, c1 + 1)
        c3 == IF c2 = 0 THEN 0 ELSE ColonAfter(s, c2 + 1)
    IN  IF c3 = 0 THEN [ok |-> FALSE]
        ELSE [ok |-> TRUE,
              service |-> SubSeq(s, 9, c1 - 1),
              region |-> SubSeq(s, c1 + 1, c2 - 1),
              account_id |-> SubSeq(s, c2 + 1, c3 - 1),
              resource |-> SubSeq(s, c3 + 1, Len(s))]

OneLine(t) ==
    \A i \in 1..Len(t) : Char(t, i) = "\n" => i = Len(t) /\ i > 1

HasArnFormat(s) ==
    /\ Len(s) >= 8
    /\ SubSeq(s, 1, 8) = "arn:aws:"
    /\ LET f == ArnFields(s) IN
       /\ f.ok
       /\ f.service # "" /\ CharsOf(f.service) \subseteq WordOrHyphenChars
       /\ CharsOf(f.region) \subseteq WordOrHyphenChars
       /\ Len(f.account_id) = 12 /\ CharsOf(f.account_id) \subseteq DigitChars
       /\ f.resource # "" /\ OneLine(f.resource)

\* i written with `width` digits, zeros in front.
RECURSIVE ZeroPadded(_, _)
ZeroPadded(i, width) ==
    IF Len(ToString(i)) >= width THEN ToString(i)
    ELSE "0" \o ZeroPadded(i, width - 1)

Range(f) == {f[i] : i \in DOMAIN f}

\* C9: for every list of strings the eager and the lazy extraction yield the
\* same set of account ids: the 12-digit account id of exactly the inputs
\* that have the identifier format (an input without it contributes to
\* neither); for the N strings of generate_fake_arns the set is the decimal
\* renderings of 100000000000 + i, i in 0..N-1.
C9_EagerEqualsLazy ==
    (eager_ids # NotCollected /\ lazy_gen.created /\ lazy_gen.pos = Len(arns_in)) =>
        /\ Range(lazy_gen.yielded) = eager_ids
        /\ eager_ids = {ArnFields(s).account_id :
                            s \in {t \in Range(arns_in) : HasArnFormat(t)}}
        /\ arn_count >= 0 =>
              /\ eager_ids = {"1" \o ZeroPadded(i, 11) : i \in 0..(arn_count - 1)}
              /\ Cardinality(eager_ids) = arn_count

\* Both extractions finished on a well-formed identifier followed by one with
\* an 11-digit account id.
C9_Witness ==
    /\ arns_in = <<"arn:aws:iam::123456789012:role/admin",
                   "arn:aws:s3:us-east-1:10000000000:bucket/b">>
    /\ eager_ids = {"123456789012"}
    /\ lazy_gen = [created |-> TRUE, pos |-> 2, yielded |-> <<"123456789012">>]

(***************************************************************************)
(* Specifications                                                          *)
(***************************************************************************)

InitCallCount ==
    /\ CCInit
    /\ BagIdle
    /\ CoordIdle
    /\ RTrieIdle
    /\ RowsIdle
    /\ DBIdle
    /\ DTIdle
    /\ ArnIdle

SpecCallCount == InitCallCount /\ [][CCNext]_vars

InitBag ==
    /\ BagInit
    /\ CCIdle
    /\ CoordIdle
    /\ RTrieIdle
    /\ RowsIdle
    /\ DBIdle
    /\ DTIdle
    /\ ArnIdle

SpecBag == InitBag /\ [][BagNext]_vars

InitCoordinate ==
    /\ CoordInit
    /\ CCIdle
    /\ BagIdle
    /\ RTrieIdle
    /\ RowsIdle
    /\ DBIdle
    /\ DTIdle
    /\ ArnIdle

SpecCoordinate == InitCoordinate /\ [][CoordNext]_vars

InitRTrieNode ==
    /\ RTrieInit
    /\ CCIdle
    /\ BagIdle
    /\ CoordIdle
    /\ RowsIdle
    /\ DBIdle
    /\ DTIdle
    /\ ArnIdle

SpecRTrieNode == InitRTrieNode /\ [][RTrieNext]_vars

InitRows ==
    /\ RowsInit
    /\ CCIdle
    /\ BagIdle
    /\ CoordIdle
    /\ RTrieIdle
    /\ DBIdle
    /\ DTIdle
    /\ ArnIdle

SpecRows == InitRows /\ [][RowsNext]_vars

InitBracket ==
    /\ DBInit
    /\ CCIdle
    /\ BagIdle
    /\ CoordIdle
    /\ RTrieIdle
    /\ RowsIdle
    /\ DTIdle
    /\ ArnIdle

SpecBracket == InitBracket /\ [][DBNext]_vars

InitTransport ==
    /\ DTInit
    /\ CCIdle
    /\ BagIdle
    /\ CoordIdle
    /\ RTrieIdle
    /\ RowsIdle
    /\ DBIdle
    /\ ArnIdle

SpecTransport == InitTransport /\ [][DTNext]_vars

InitArns ==
    /\ ArnInit
    /\ CCIdle
    /\ BagIdle
    /\ CoordIdle
    /\ RTrieIdle
    /\ RowsIdle
    /\ DBIdle
    /\ DTIdle

SpecArns == InitArns /\ [][ArnNext]_vars

=============================================================================
